---- MODULE Spec2Model ----
(***************************************************************************)
(* A model of the document question-answering pipeline:                    *)
(*   document_processor.py  PDF -> page-level chunks (tables as markdown)  *)
(*   vector_store.py        chunks -> persisted index, retriever           *)
(*   llm_qa.py              query + retrieved chunks -> answer, citations  *)
(*   run_pipeline.py        the command-line driver of the three steps     *)
(*                                                                         *)
(* Text is modelled as a sequence of tokens; a token stands for the        *)
(* literal characters it spells ("\n" is the newline, " " one space).      *)
(* Concatenation of text is \o.  A Python dict is a function whose DOMAIN  *)
(* is the set of keys present.                                             *)
(***************************************************************************)
EXTENDS Integers, Sequences, FiniteSets, TLC

\* ------------------------------------------------------------------ bounds
\* Most chunks handed to one answer_question call.
MaxDocs == 2

\* ------------------------------------------------------------------- state
\* One answer_question call.
VARIABLES
    query,           \* answer_question's query argument
    retrieved_docs,  \* answer_question's retrieved_docs argument (the stored chunks)
    docs_given,      \* the retrieved chunks as they were when the call was made
    llm_outcome,     \* how the model backend behaves when invoked
    qa_pc,           \* "idle", "returned" or "raised"
    qa_result,       \* the dict answer_question returned
    chain_calls      \* the chain invocations made by the call, in order

qa_vars == <<query, retrieved_docs, docs_given, llm_outcome, qa_pc, qa_result, chain_calls>>

\* The files and the running operation.
VARIABLES
    pdf,               \* the input PDF: whether it exists and its pages
    chunks_file,       \* the chunk file (CHUNKS_PATH)
    images_dir,        \* the files in the images directory (IMAGES_DIR)
    index_dir,         \* the persisted index (VECTOR_STORE_PATH)
    pc,                \* where the running operation stands
    entry,             \* which entry point is running
    args,              \* the driver's flags
    processed_chunks,  \* process_pdf's accumulator
    page_i,            \* process_pdf's loop index (0-based)
    vectorstore,       \* the manager's in-memory store
    call_arg,          \* the chunks_data argument of the last create_vector_store call
    embed_count,       \* the embeddings that call computed
    exit_code,         \* the process's exit code (-1 while running)
    failed,            \* what failed in the operation, "none" if nothing
    inference,         \* how run_inference ended
    pdf_read,          \* whether the operation opened the PDF
    last_get,          \* the last get_retriever call: the store before it, the loads
                       \* it made, whether it returned a retriever
    fs_at_start        \* chunk file, images directory and index as the operation began

pipe_vars == <<pdf, chunks_file, images_dir, index_dir, pc, entry, args,
               processed_chunks, page_i, vectorstore, call_arg,
               embed_count, exit_code, failed, inference, pdf_read, last_get,
               fs_at_start>>

\* One page through process_pdf's loop body.
VARIABLES
    cur_page,     \* the page handed to the loop body
    page_pc,      \* "idle" or "done"
    cur_tables,   \* the page's rendered tables (table_texts)
    cur_chunks    \* the chunks the page appended

page_vars == <<cur_page, page_pc, cur_tables, cur_chunks>>

vars == <<qa_vars, pipe_vars, page_vars>>

\* ------------------------------------------------------------ text helpers
NL == "\n"
SP == " "

\* dict.get(key, default)
Get(d, key, default) == IF key \in DOMAIN d THEN d[key] ELSE default

RECURSIVE Flatten(_)
\* "".join(list of texts)
Flatten(ss) == IF ss = <<>> THEN <<>> ELSE Head(ss) \o Flatten(Tail(ss))

RECURSIVE Join(_, _)
\* sep.join(list of texts)
Join(sep, ss) ==
    IF ss = <<>> THEN <<>>
    ELSE IF Len(ss) = 1 THEN Head(ss)
    ELSE Head(ss) \o sep \o Join(sep, Tail(ss))

\* Sequences over S of length 0..n
SeqUpTo(S, n) == UNION {[1..k -> S] : k \in 0..n}

\* ------------------------------------------------------ document_processor.py
\* The section headers process_pdf writes, one token each, and the PDF's name.
TEXT_HDR == "### TEXT CONTENT"
TABLES_HDR == "### TABLES"
PdfName == "qatar_test_doc.pdf"

\* A table cell as pdfplumber hands it over: None, or a text of characters.
NoneCell == <<"<None>">>
Whitespace == {SP, NL, "\t"}

\* str.replace('\n', ' ')
FlattenNewlines(s) == [i \in 1..Len(s) |-> IF s[i] = NL THEN SP ELSE s[i]]

RECURSIVE LStrip(_)
LStrip(s) == IF s # <<>> /\ Head(s) \in Whitespace THEN LStrip(Tail(s)) ELSE s

RECURSIVE RStrip(_)
RStrip(s) ==
    IF s # <<>> /\ s[Len(s)] \in Whitespace THEN RStrip(SubSeq(s, 1, Len(s) - 1)) ELSE s

\* str.strip()
Strip(s) == RStrip(LStrip(s))

\* A cell cleaner that forgets to flatten the newlines.
CleanCell_keepnl(cell) ==
    IF cell # NoneCell /\ cell # <<>> THEN Strip(cell) ELSE <<>>

\* str(cell).replace('\n', ' ').strip() if cell else ""
CleanCell(cell) ==
    IF cell # NoneCell /\ cell # <<>> THEN Strip(FlattenNewlines(cell)) ELSE <<>>

\* "| " + " | ".join(row) + " |"
RowLine(row) == <<"| ">> \o Join(<<" | ">>, row) \o <<" |">>

\* DocumentProcessor._table_to_markdown
_table_to_markdown(table) ==
    IF table = <<>> \/ Len(table) < 2 THEN <<>>
    ELSE LET cleaned_table ==
                 [r \in 1..Len(table) |->
                     [c \in 1..Len(table[r]) |-> CleanCell(table[r][c])]]
             header == RowLine(cleaned_table[1])
             separator == RowLine([c \in 1..Len(cleaned_table[1]) |-> <<"---">>])
             body_rows == [r \in 1..(Len(table) - 1) |-> RowLine(cleaned_table[r + 1])]
         IN  <<NL>> \o header \o <<NL>> \o separator \o <<NL>>
             \o Join(<<NL>>, body_rows) \o <<NL>>

\* filter of a list, keeping order
RECURSIVE NonEmpty(_)
NonEmpty(ss) ==
    IF ss = <<>> THEN <<>>
    ELSE IF Head(ss) # <<>> THEN <<Head(ss)>> \o NonEmpty(Tail(ss))
    ELSE NonEmpty(Tail(ss))

\* The table loop of process_pdf: the markdown of every table that renders to
\* something.
TableTexts(tables) ==
    NonEmpty([t \in 1..Len(tables) |-> _table_to_markdown(tables[t])])

\* The image loop of process_pdf: one placeholder per image of the page.
ImageReferences(page_num, n_images) ==
    [k \in 1..n_images |->
        <<"[IMAGE_REF: page_", ToString(page_num), "_img_", ToString(k), ".png]">>]

VISUALS_HDR == "### VISUALS"

\* Steps 4 of process_pdf: the page's combined content.
FullContent(page_num, table_texts, text_content, image_references) ==
    (IF table_texts # <<>>
     THEN <<TABLES_HDR, " ON PAGE ", ToString(page_num), NL>>
          \o Join(<<NL>>, table_texts) \o <<NL, NL>>
     ELSE <<>>)
    \o (IF text_content # <<>> THEN <<TEXT_HDR, NL>> \o text_content \o <<NL>> ELSE <<>>)
    \o (IF image_references # <<>>
        THEN <<NL, VISUALS_HDR, NL>> \o Join(<<NL>>, image_references)
        ELSE <<>>)

\* A page number that keeps enumerate's 0-based index.
PageNum_zerobased(i) == i

\* page_num = i + 1
PageNum(i) == i + 1

\* The body of process_pdf's page loop for the page at 0-based position i:
\* the rendered tables and the chunks the page appends (one or none).
ProcessPage(page, i) ==
    LET page_num == PageNum(i)
        text_content == page.text
        tables == page.tables
        table_texts == TableTexts(tables)
        image_references == ImageReferences(page_num, page.images)
        full_content == FullContent(page_num, table_texts, text_content, image_references)
    IN  [table_texts |-> table_texts,
         chunks |->
            IF Strip(full_content) # <<>>
            THEN <<[page_content |-> full_content,
                    metadata |-> [source |-> PdfName,
                                  page |-> page_num,
                                  has_tables |-> Len(tables) > 0,
                                  has_images |-> Len(image_references) > 0]]>>
            ELSE <<>>]

\* --------------------------------------------------------------- llm_qa.py
NoContextAnswer ==
    "I looked through the report, but I couldn't find the answer to that specific question."
LLMErrorAnswer ==
    "Oops! I had a little trouble thinking about that. Could you ask me again?"

\* doc.page_content.replace("### TEXT CONTENT", "").replace("### TABLES", "Table Data:")
RECURSIVE CleanContent(_)
CleanContent(s) ==
    IF s = <<>> THEN <<>>
    ELSE IF Head(s) = TEXT_HDR THEN CleanContent(Tail(s))
    ELSE IF Head(s) = TABLES_HDR THEN <<"Table Data:">> \o CleanContent(Tail(s))
    ELSE <<Head(s)>> \o CleanContent(Tail(s))

\* str(page) in the label's f-string: the page the metadata holds, "?" without one.
PageLabel(md) == IF "page" \in DOMAIN md THEN ToString(md["page"]) ELSE "?"

\* One context block of _format_docs: the label line, the cleaned content and
\* two newlines.
FormatBlock(doc) ==
    <<"--- INFO FROM PAGE ", PageLabel(doc.metadata), " (",
      Get(doc.metadata, "source", "Report"), ") ---", NL>>
    \o CleanContent(doc.page_content) \o <<NL, NL>>

\* QAEngine._format_docs: the blocks of the documents, concatenated in order.
_format_docs(docs) == Flatten([i \in 1..Len(docs) |-> FormatBlock(docs[i])])

\* A bug that cites the text cleaned for the prompt instead of the stored text.
FormatCitations_cleaned(docs) ==
    [i \in 1..Len(docs) |->
        [rank |-> i,
         source |-> Get(docs[i].metadata, "source", "Unknown"),
         page |-> Get(docs[i].metadata, "page", "Unknown"),
         snippet |-> CleanContent(docs[i].page_content)]]

\* The citation loop of answer_question.
FormatCitations(docs) ==
    [i \in 1..Len(docs) |->
        [rank |-> i,
         source |-> Get(docs[i].metadata, "source", "Unknown"),
         page |-> Get(docs[i].metadata, "page", "Unknown"),
         snippet |-> docs[i].page_content]]

\* RunnablePassthrough(): hands on its input unchanged.
Passthrough(input) == input

\* The head of the chain, {"context": RunnablePassthrough(), "question":
\* RunnablePassthrough()}: a parallel map whose every branch is run on the whole
\* input of the chain.
ChainHead(input) == [context |-> Passthrough(input), question |-> Passthrough(input)]

\* repr of a str: quoted, a newline written as backslash-n.
Repr(s) == <<"'">> \o [i \in 1..Len(s) |-> IF s[i] = NL THEN "\\n" ELSE s[i]] \o <<"'">>

\* str of the dict the chain is invoked with, as the template's f-string
\* formatting writes a slot's value.
StrOfInput(input) ==
    <<"{'context': ">> \o Repr(input.context) \o <<", 'question': ">>
    \o Repr(input.question) \o <<"}">>

\* self.chain.invoke({"context": ..., "question": ...}): the text that fills
\* the prompt template's two slots, and what the model backend did with the
\* prompt.
ChainInvoke(context, question, llm) ==
    LET input == [context |-> context, question |-> <<question>>]
        slots == ChainHead(input) IN
    [prompt |-> [context |-> StrOfInput(slots.context),
                 question |-> StrOfInput(slots.question)],
     raised |-> ~llm.ok,
     text |-> llm.text]

\* A guard that never short-circuits.
NoDocs_never(docs) == FALSE

\* `if not retrieved_docs`
NoDocs(docs) == docs = <<>>

\* A handler that re-raises.
OnChainError_reraise(docs) ==
    [raised |-> TRUE, ret |-> [answer |-> <<>>, citations |-> <<>>]]

\* The `except Exception` handler around the chain call.
OnChainError(docs) ==
    [raised |-> FALSE, ret |-> [answer |-> <<LLMErrorAnswer>>, citations |-> <<>>]]

\* QAEngine.answer_question(query, retrieved_docs) against a backend that
\* behaves as llm: what it returns (or that it raised), the chain calls it made
\* and the documents as the call leaves them (it assigns to none of them).
answer_question(q, docs, llm) ==
    IF NoDocs(docs)
    THEN [raised |-> FALSE, calls |-> <<>>, docs |-> docs,
          ret |-> [answer |-> <<NoContextAnswer>>, citations |-> <<>>]]
    ELSE LET context_text == _format_docs(docs)
             call == ChainInvoke(context_text, q, llm) IN
         IF call.raised
         THEN [raised |-> OnChainError(docs).raised, calls |-> <<call.prompt>>,
               docs |-> docs, ret |-> OnChainError(docs).ret]
         ELSE [raised |-> FALSE, calls |-> <<call.prompt>>, docs |-> docs,
               ret |-> [answer |-> call.text, citations |-> FormatCitations(docs),
                        context_used |-> Len(docs)]]

Queries == {"q1", "q2"}
Contents ==
    {<<"text">>,
     <<TEXT_HDR, NL, "text", NL>>,
     <<TABLES_HDR, " ON PAGE 1", NL, "| a |", NL, NL, TEXT_HDR, NL, "text", NL>>}
Metadatas ==
    {[source |-> PdfName, page |-> 1, chunk_id |-> 0],
     [source |-> PdfName, page |-> 2, chunk_id |-> 1],
     [page |-> 3],
     [source |-> "other.pdf"]}
Documents == [page_content : Contents, metadata : Metadatas]
LLMOutcomes == {[ok |-> FALSE, text |-> <<>>],
                [ok |-> TRUE, text |-> <<"answer [Page 1]">>],
                [ok |-> TRUE, text |-> <<>>]}

QAInit ==
    /\ query \in Queries
    /\ retrieved_docs \in SeqUpTo(Documents, MaxDocs)
    /\ docs_given = retrieved_docs
    /\ llm_outcome \in LLMOutcomes
    /\ qa_pc = "idle"
    /\ qa_result = [answer |-> <<>>, citations |-> <<>>]
    /\ chain_calls = <<>>

\* One call of answer_question.
AnswerQuestion ==
    /\ qa_pc = "idle"
    /\ LET r == answer_question(query, retrieved_docs, llm_outcome) IN
       /\ qa_pc' = IF r.raised THEN "raised" ELSE "returned"
       /\ qa_result' = r.ret
       /\ chain_calls' = r.calls
       /\ retrieved_docs' = r.docs
    /\ UNCHANGED <<query, docs_given, llm_outcome, pipe_vars, page_vars>>

\* ------------------------------------------------------------ vector_store.py
RETRIEVAL_K == 4

\* doc.metadata["chunk_id"] = i, leaving an id the record already carries.
WithChunkId_keep(md, i) ==
    [k \in DOMAIN md \cup {"chunk_id"} |-> IF k \in DOMAIN md THEN md[k] ELSE i]

\* doc.metadata["chunk_id"] = i
WithChunkId(md, i) ==
    [k \in DOMAIN md \cup {"chunk_id"} |-> IF k = "chunk_id" THEN i ELSE md[k]]

EmptyDict == [k \in {} |-> 0]

\* Step 2 of create_vector_store: one Document per chunk, numbered by enumerate.
ToDocuments(chunks_data) ==
    [n \in 1..Len(chunks_data) |->
        [page_content |-> Get(chunks_data[n], "page_content", <<>>),
         metadata |-> WithChunkId(Get(chunks_data[n], "metadata", EmptyDict), n - 1)]]

\* A persisted file or directory: whether it exists, and what it holds.
Absent == [exists |-> FALSE, data |-> <<>>]
Holding(d) == [exists |-> TRUE, data |-> d]

\* The chunks_data argument: None (the default) or a list.
NoneArg == [is_none |-> TRUE, data |-> <<>>]
ListArg(d) == [is_none |-> FALSE, data |-> d]

\* A guard that loads the chunk file only for None.
ArgMissing_onlynone(arg) == arg.is_none

\* `if not chunks_data`
ArgMissing(arg) == arg.is_none \/ arg.data = <<>>

\* VectorStoreManager.create_vector_store(chunks_data) on a manager whose
\* in-memory store is vs, with the chunk file and the persisted index as given;
\* embed_ok says whether the embedding backend works.  Yields whether the call
\* raised, how many embeddings it computed, and the
\* in-memory store and persisted index it leaves.
create_vector_store(arg, vs, file, index, embed_ok) ==
    IF ArgMissing(arg) /\ ~file.exists
    THEN [raised |-> TRUE, embedded |-> 0, vectorstore |-> vs,
          index |-> index]
    ELSE LET chunks_data == IF ArgMissing(arg) THEN file.data ELSE arg.data
             documents == ToDocuments(chunks_data)
         IN  IF documents = <<>>
             THEN [raised |-> FALSE, embedded |-> 0,
                   vectorstore |-> vs, index |-> index]
             ELSE IF ~embed_ok
             THEN [raised |-> TRUE, embedded |-> 0,
                   vectorstore |-> vs, index |-> index]
             ELSE [raised |-> FALSE, embedded |-> Len(documents),
                   vectorstore |-> Holding(documents), index |-> Holding(documents)]

\* ------------------------------------------------------------ run_pipeline.py
\* An ingestion guard with the force flag inverted.
SkipIngestion_ignoreforce(file, force) == file.exists /\ force

\* `if config.CHUNKS_PATH.exists() and not force`
SkipIngestion(file, force) == file.exists /\ ~force

\* `if config.VECTOR_STORE_PATH.exists() and not force`
SkipIndexing(index, force) == index.exists /\ ~force

\* A handler that saves the pages extracted so far before giving up.
IngestionFailed_savepartial(file, processed) ==
    [chunks_file |-> Holding(processed), exit_code |-> 1]

\* run_ingestion's `except Exception`: print and sys.exit(1); the chunk file is
\* not touched.
IngestionFailed(file, processed) == [chunks_file |-> file, exit_code |-> 1]

\* Bounds of the pipeline model.
MaxPages == 2

\* Pages a PDF is made of: an empty one, text only, a rendered table with an
\* image, a header-only table, and a header-only table over blank text.
SampleTable == << <<<<"A">>, <<"B">>>>, <<<<"1">>, NoneCell>> >>
HeaderOnlyTable == << <<<<"A">>, <<"B">>>> >>
SamplePages ==
    {[text |-> <<>>, tables |-> <<>>, images |-> 0],
     [text |-> <<"t">>, tables |-> <<>>, images |-> 0],
     [text |-> <<>>, tables |-> <<SampleTable>>, images |-> 1],
     [text |-> <<>>, tables |-> <<HeaderOnlyTable>>, images |-> 0],
     [text |-> <<SP>>, tables |-> <<HeaderOnlyTable>>, images |-> 0]}
Pdfs == {Absent} \cup {Holding(pp) : pp \in SeqUpTo(SamplePages, MaxPages)}

\* A chunk file left by an earlier run on another document, or written by
\* hand: a record that already carries a chunk_id, and one without metadata.
OldChunks ==
    <<[page_content |-> <<TEXT_HDR, NL, "old", NL>>,
       metadata |-> [source |-> "old.pdf", page |-> 7, has_tables |-> FALSE,
                     has_images |-> FALSE, chunk_id |-> 5]],
      [page_content |-> <<"bare">>]>>
OtherChunks ==
    <<[page_content |-> <<"x">>, metadata |-> [source |-> "x.pdf", page |-> 1]]>>
InitialChunkFiles == {Absent, Holding(<<>>), Holding(OldChunks)}
InitialIndexes == {Absent, Holding(ToDocuments(OldChunks))}
InitialImages == {{}, {"page_1_img_1.png"}}
CallArgs == {NoneArg, ListArg(<<>>), ListArg(OldChunks), ListArg(OtherChunks)}

Snapshot == [chunks |-> chunks_file, images |-> images_dir, index |-> index_dir]
AtRest == pc \in {"idle", "exited", "returned"}

\* No get_retriever call yet.
NoGet == [before |-> Absent, loads |-> 0, returned |-> FALSE]

PipeIdle ==
    /\ pc = "idle"
    /\ entry = "none"
    /\ args = [force |-> FALSE, skip_ingest |-> FALSE]
    /\ processed_chunks = <<>>
    /\ page_i = 0
    /\ vectorstore = Absent
    /\ call_arg = NoneArg
    /\ embed_count = 0
    /\ exit_code = -1
    /\ failed = "none"
    /\ inference = "none"
    /\ pdf_read = FALSE
    /\ last_get = NoGet
    /\ fs_at_start = Snapshot

PipeInit ==
    /\ pdf \in Pdfs
    /\ chunks_file \in InitialChunkFiles
    /\ images_dir \in InitialImages
    /\ index_dir \in InitialIndexes
    /\ PipeIdle

fs_vars == <<chunks_file, images_dir, index_dir>>
mgr_vars == <<vectorstore, call_arg, embed_count>>
loop_vars == <<processed_chunks, page_i>>

\* What every entry point resets when a new process starts.
Begin(e, a, next) ==
    /\ AtRest
    /\ entry' = e
    /\ args' = a
    /\ pc' = next
    /\ exit_code' = -1
    /\ failed' = "none"
    /\ inference' = "none"
    /\ pdf_read' = FALSE
    /\ processed_chunks' = <<>>
    /\ page_i' = 0
    /\ vectorstore' = Absent
    /\ call_arg' = NoneArg
    /\ embed_count' = 0
    /\ fs_at_start' = Snapshot
    /\ last_get' = NoGet
    /\ UNCHANGED <<qa_vars, page_vars, pdf, fs_vars>>

\* The process ends with the given exit code.
Exit(code, why) ==
    /\ pc' = "exited"
    /\ exit_code' = code
    /\ failed' = why

\* python run_pipeline.py [--force] [--skip-ingest]
StartMain ==
    \E f \in BOOLEAN, sk \in BOOLEAN :
        Begin("main", [force |-> f, skip_ingest |-> sk], "check_env")

\* python document_processor.py: DocumentProcessor(), process_pdf(), save_chunks().
StartProcessor ==
    Begin("processor", [force |-> FALSE, skip_ingest |-> FALSE], "dp_init")

\* check_environment: exits 1 without the PDF (the Ollama probe only warns).
CheckEnvironment ==
    /\ pc = "check_env"
    /\ IF ~pdf.exists
       THEN Exit(1, "pdf_missing")
       ELSE /\ pc' = IF args.skip_ingest THEN "inference" ELSE "ingestion"
            /\ UNCHANGED <<exit_code, failed>>
    /\ UNCHANGED <<qa_vars, page_vars, last_get, pdf, fs_vars, entry, args, loop_vars, mgr_vars, inference,
                   pdf_read, fs_at_start>>

\* run_ingestion up to the guard: skip, or go on to build the processor.
RunIngestion ==
    /\ pc = "ingestion"
    /\ pc' = IF SkipIngestion(chunks_file, args.force) THEN "indexing" ELSE "dp_init"
    /\ UNCHANGED <<qa_vars, page_vars, last_get, pdf, fs_vars, entry, args, loop_vars, mgr_vars, exit_code, failed,
                   inference, pdf_read, fs_at_start>>

\* DocumentProcessor.__init__: rmtree the images directory and make it anew.
ProcessorInit ==
    /\ pc = "dp_init"
    /\ images_dir' = {}
    /\ pc' = "process_pdf"
    /\ UNCHANGED <<qa_vars, page_vars, last_get, pdf, chunks_file, index_dir, entry, args, loop_vars, mgr_vars,
                   exit_code, failed, inference, pdf_read, fs_at_start>>

\* An exception leaves process_pdf: run_ingestion's handler exits 1, and the
\* bare script dies of it with exit code 1.
Raise(why) ==
    /\ Exit(IngestionFailed(chunks_file, processed_chunks).exit_code, why)
    /\ chunks_file' = IngestionFailed(chunks_file, processed_chunks).chunks_file

\* process_pdf before the page loop: the existence check and opening the PDF.
ProcessPdfOpen ==
    /\ pc = "process_pdf"
    /\ IF ~pdf.exists
       THEN /\ Raise("FileNotFoundError")
            /\ UNCHANGED <<pdf_read, loop_vars>>
       ELSE /\ pc' = "pages"
            /\ pdf_read' = TRUE
            /\ processed_chunks' = <<>>
            /\ page_i' = 0
            /\ UNCHANGED <<chunks_file, exit_code, failed>>
    /\ UNCHANGED <<qa_vars, page_vars, last_get, pdf, images_dir, index_dir, entry, args, mgr_vars, inference,
                   fs_at_start>>

\* One iteration of the page loop; pdfplumber may fail on the page.
ProcessPdfPage ==
    /\ pc = "pages"
    /\ page_i < Len(pdf.data)
    /\ \E extraction_ok \in BOOLEAN :
        IF extraction_ok
        THEN /\ processed_chunks' =
                    processed_chunks \o ProcessPage(pdf.data[page_i + 1], page_i).chunks
             /\ page_i' = page_i + 1
             /\ UNCHANGED <<pc, chunks_file, exit_code, failed>>
        ELSE /\ Raise("extraction")
             /\ UNCHANGED loop_vars
    /\ UNCHANGED <<qa_vars, page_vars, last_get, pdf, images_dir, index_dir, entry, args, mgr_vars, inference,
                   pdf_read, fs_at_start>>

\* process_pdf returns and save_chunks writes the whole list over the file.
SaveChunks ==
    /\ pc = "pages"
    /\ page_i = Len(pdf.data)
    /\ chunks_file' = Holding(processed_chunks)
    /\ IF entry = "main"
       THEN pc' = "indexing" /\ UNCHANGED <<exit_code, failed>>
       ELSE Exit(0, "none")
    /\ UNCHANGED <<qa_vars, page_vars, last_get, pdf, images_dir, index_dir, entry, args, loop_vars, mgr_vars,
                   inference, pdf_read, fs_at_start>>

\* run_indexing: skip, or build the index from the chunk file on a new manager;
\* the embedding model may fail to load or to embed.
RunIndexing ==
    /\ pc = "indexing"
    /\ IF SkipIndexing(index_dir, args.force)
       THEN /\ pc' = "inference"
            /\ UNCHANGED <<index_dir, mgr_vars, exit_code, failed>>
       ELSE \E manager_ok \in BOOLEAN, embed_ok \in BOOLEAN :
            IF ~manager_ok
            THEN /\ Exit(1, "indexing")
                 /\ UNCHANGED <<index_dir, mgr_vars>>
            ELSE LET r == create_vector_store(NoneArg, Absent, chunks_file,
                                              index_dir, embed_ok) IN
                 /\ index_dir' = r.index
                 /\ vectorstore' = r.vectorstore
                 /\ call_arg' = NoneArg
                 /\ embed_count' = r.embedded
                 /\ IF r.raised
                    THEN Exit(1, "indexing")
                    ELSE pc' = "inference" /\ UNCHANGED <<exit_code, failed>>
    /\ UNCHANGED <<qa_vars, page_vars, last_get, pdf, chunks_file, images_dir, entry, args, loop_vars, inference,
                   pdf_read, fs_at_start>>

\* A get_retriever that loads the persisted index on every call.
get_retriever_alwaysload(vs, index) ==
    IF ~index.exists THEN [raised |-> TRUE, vectorstore |-> vs, loaded |-> FALSE]
    ELSE [raised |-> FALSE, vectorstore |-> index, loaded |-> TRUE]

\* VectorStoreManager.get_retriever on a store vs: load from disk when none is
\* in memory.
get_retriever(vs, index) ==
    IF vs.exists THEN [raised |-> FALSE, vectorstore |-> vs, loaded |-> FALSE]
    ELSE IF ~index.exists THEN [raised |-> TRUE, vectorstore |-> vs, loaded |-> FALSE]
    ELSE [raised |-> FALSE, vectorstore |-> index, loaded |-> TRUE]

\* run_inference: every exception is caught and printed, and the function
\* returns; main then ends normally.
RunInference ==
    /\ pc = "inference"
    /\ \E fault \in {"none", "manager", "retrieve", "engine", "llm"} :
        LET r == get_retriever(Absent, index_dir)
            n_docs == IF Len(r.vectorstore.data) < RETRIEVAL_K
                      THEN Len(r.vectorstore.data) ELSE RETRIEVAL_K
        IN  /\ inference' =
                 IF fault = "manager" THEN "failed"
                 ELSE IF r.raised THEN "failed"
                 ELSE IF fault = "retrieve" THEN "failed"
                 ELSE IF n_docs = 0 THEN "no_documents"
                 ELSE IF fault = "engine" THEN "failed"
                 ELSE IF fault = "llm" THEN "fallback"
                 ELSE "answered"
            /\ vectorstore' = IF fault = "manager" THEN Absent ELSE r.vectorstore
            /\ last_get' = IF fault = "manager" THEN NoGet
                           ELSE [before |-> Absent,
                                 loads |-> IF r.loaded THEN 1 ELSE 0,
                                 returned |-> ~r.raised]
    /\ Exit(0, "none")
    /\ UNCHANGED <<qa_vars, page_vars, pdf, fs_vars, entry, args, loop_vars, call_arg,
                   embed_count, pdf_read, fs_at_start>>

\* manager = VectorStoreManager(); manager.create_vector_store(chunks_data)
CallCreateVectorStore ==
    \E arg \in CallArgs, embed_ok \in BOOLEAN :
        LET r == create_vector_store(arg, Absent, chunks_file, index_dir, embed_ok) IN
        /\ AtRest
        /\ entry' = "create_vector_store"
        /\ args' = [force |-> FALSE, skip_ingest |-> FALSE]
        /\ pc' = "returned"
        /\ exit_code' = -1
        /\ failed' = IF r.raised THEN "raised" ELSE "none"
        /\ inference' = "none"
        /\ pdf_read' = FALSE
        /\ processed_chunks' = <<>>
        /\ page_i' = 0
        /\ fs_at_start' = Snapshot
        /\ call_arg' = arg
        /\ embed_count' = r.embedded
        /\ vectorstore' = r.vectorstore
        /\ index_dir' = r.index
        /\ last_get' = NoGet
        /\ UNCHANGED <<qa_vars, page_vars, pdf, chunks_file, images_dir>>

\* manager.get_retriever(), on the manager the last call left (after
\* create_vector_store or an earlier get_retriever) or on a new one.
CallGetRetriever ==
    \E fresh \in BOOLEAN :
        LET vs == IF fresh THEN Absent ELSE vectorstore
            r == get_retriever(vs, index_dir) IN
        /\ AtRest
        /\ entry' = "get_retriever"
        /\ pc' = "returned"
        /\ exit_code' = -1
        /\ failed' = IF r.raised THEN "FileNotFoundError" ELSE "none"
        /\ vectorstore' = r.vectorstore
        /\ last_get' = [before |-> vs,
                        loads |-> IF r.loaded THEN 1 ELSE 0,
                        returned |-> ~r.raised]
        /\ fs_at_start' = Snapshot
        /\ args' = [force |-> FALSE, skip_ingest |-> FALSE]
        /\ inference' = "none"
        /\ pdf_read' = FALSE
        /\ processed_chunks' = <<>>
        /\ page_i' = 0
        /\ call_arg' = NoneArg
        /\ embed_count' = 0
        /\ UNCHANGED <<qa_vars, page_vars, pdf, fs_vars>>

\* ------------------------------------------------------- the single-page run
MaxRows == 2
MaxCols == 2
MaxTables == 2
MaxImages == 1

\* None, a text with blanks around and a newline inside, and a blank text.
Cells == {NoneCell, <<SP, "a", NL, "b", NL>>, <<NL>>}
Rows == SeqUpTo(Cells, MaxCols)
Tables == SeqUpTo(Rows, MaxRows)
Texts == {<<>>, <<"t">>, <<SP>>}
\* Pages with one table of any shape, and pages with several sample tables,
\* text and images.
Pages ==
    {[text |-> <<>>, tables |-> <<t>>, images |-> 0] : t \in Tables}
    \cup [text : Texts,
          tables : SeqUpTo({<<>>, HeaderOnlyTable, SampleTable}, MaxTables),
          images : 0..MaxImages]

PageIdle ==
    /\ cur_page = [text |-> <<>>, tables |-> <<>>, images |-> 0]
    /\ page_pc = "idle"
    /\ cur_tables = <<>>
    /\ cur_chunks = <<>>

PageInit ==
    /\ cur_page \in Pages
    /\ page_pc = "idle"
    /\ cur_tables = <<>>
    /\ cur_chunks = <<>>

\* The loop body of process_pdf on the first page of a document.
ProcessOnePage ==
    /\ page_pc = "idle"
    /\ page_pc' = "done"
    /\ cur_tables' = ProcessPage(cur_page, 0).table_texts
    /\ cur_chunks' = ProcessPage(cur_page, 0).chunks
    /\ UNCHANGED <<cur_page, pipe_vars, qa_vars>>

QAIdle ==
    /\ query = "q1"
    /\ retrieved_docs = <<>>
    /\ docs_given = <<>>
    /\ llm_outcome = [ok |-> TRUE, text |-> <<>>]
    /\ qa_pc = "off"
    /\ qa_result = [answer |-> <<>>, citations |-> <<>>]
    /\ chain_calls = <<>>

\* The files as a fresh checkout has them, for the runs that use none.
PipeInitQuiet ==
    /\ pdf = Absent
    /\ chunks_file = Absent
    /\ images_dir = {}
    /\ index_dir = Absent
    /\ PipeIdle

\* --------------------------------------------------------- specifications

\* The pipeline: the driver, the processor script and index builds, over the
\* files they share.
Init == PipeInit /\ QAIdle /\ PageIdle
Next ==
    \/ StartMain
    \/ StartProcessor
    \/ CheckEnvironment
    \/ RunIngestion
    \/ ProcessorInit
    \/ ProcessPdfOpen
    \/ ProcessPdfPage
    \/ SaveChunks
    \/ RunIndexing
    \/ RunInference
    \/ CallCreateVectorStore
    \/ CallGetRetriever
Spec == Init /\ [][Next]_vars

\* One answer_question call.
InitQA == QAInit /\ PipeInitQuiet /\ PageIdle
NextQA == AnswerQuestion
SpecQA == InitQA /\ [][NextQA]_vars

\* One page through process_pdf's loop body.
InitPage == PageInit /\ PipeInitQuiet /\ QAIdle
NextPage == ProcessOnePage
SpecPage == InitPage /\ [][NextPage]_vars

\* ------------------------------------------------------------------ claims
QACalled == qa_pc \in {"returned", "raised"}

\* C1: answer_question called with an empty retrieved-chunk list returns the
\* fixed fallback answer with no citations, and the chain is never invoked.
C1_EmptyRetrievalShortCircuits ==
    (QACalled /\ docs_given = <<>>) =>
        /\ qa_pc = "returned"
        /\ qa_result = [answer |-> <<NoContextAnswer>>, citations |-> <<>>]
        /\ chain_calls = <<>>

C1_Witness == qa_pc = "returned" /\ docs_given = <<>> /\ query = "q2"

\* The i-th citation names the i-th chunk: rank i, the chunk's source and page
\* where its metadata has them, and the chunk's stored content as snippet.
CitationOf(cit, doc, i) ==
    /\ cit.rank = i
    /\ "source" \in DOMAIN doc.metadata => cit.source = doc.metadata["source"]
    /\ "page" \in DOMAIN doc.metadata => cit.page = doc.metadata["page"]
    /\ cit.snippet = doc.page_content

CitationsMatchChunks ==
    /\ qa_pc = "returned"
    /\ Len(qa_result.citations) = Len(docs_given)
    /\ \A i \in 1..Len(docs_given) :
           CitationOf(qa_result.citations[i], docs_given[i], i)
    /\ retrieved_docs = docs_given

\* C2 as stated: every call with a non-empty retrieved list returns one citation
\* per chunk, in rank order, with the chunk's source, page and unmodified
\* content, and leaves the chunks as they were.
C2_Original == (QACalled /\ docs_given # <<>>) => CitationsMatchChunks

\* C2 amended: every call with a non-empty retrieved list in which the model
\* invocation succeeds returns one citation per chunk, the i-th with rank i, the
\* source and page of the i-th chunk ("Unknown" for one its metadata lacks) and
\* that chunk's stored content as snippet, and leaves the chunks as they were.
C2_CitationsOnSuccess ==
    (QACalled /\ docs_given # <<>> /\ llm_outcome.ok) =>
        /\ CitationsMatchChunks
        /\ \A i \in 1..Len(docs_given) :
            /\ "source" \notin DOMAIN docs_given[i].metadata
                   => qa_result.citations[i].source = "Unknown"
            /\ "page" \notin DOMAIN docs_given[i].metadata
                   => qa_result.citations[i].page = "Unknown"
        /\ qa_result.context_used = Len(docs_given)

C2_Witness ==
    /\ qa_pc = "returned"
    /\ llm_outcome.ok
    /\ Len(docs_given) = 2
    /\ docs_given[1].page_content # CleanContent(docs_given[1].page_content)
    /\ "source" \notin DOMAIN docs_given[2].metadata
    /\ qa_result.citations[2].rank = 2

\* C3: when the model invocation raises inside answer_question (non-empty
\* retrieved list), the call returns the fixed fallback message with no
\* citations instead of raising.
C3_ModelFailureIsCaught ==
    (QACalled /\ docs_given # <<>> /\ ~llm_outcome.ok) =>
        /\ qa_pc = "returned"
        /\ qa_result = [answer |-> <<LLMErrorAnswer>>, citations |-> <<>>]

C3_Witness ==
    /\ qa_pc = "returned"
    /\ docs_given # <<>>
    /\ ~llm_outcome.ok
    /\ Len(chain_calls) = 1

IngestionPositions == {"dp_init", "process_pdf", "pages"}

\* A driver run with ingestion enabled and without --force that found the chunk
\* file in place, once run_ingestion has been entered and left.
C4_Applies ==
    /\ entry = "main"
    /\ ~args.skip_ingest
    /\ ~args.force
    /\ fs_at_start.chunks.exists
    /\ pc \notin {"check_env", "ingestion"}
    /\ failed # "pdf_missing"

\* C4: run_ingestion(force=False) with the chunk file present is a no-op: it
\* never builds the processor or reads the PDF, the chunk file and the images
\* directory keep their content, and the index is as it was when it returns.
C4_IngestionSkippedIsNoOp ==
    C4_Applies =>
        /\ pc \notin IngestionPositions
        /\ ~pdf_read
        /\ chunks_file = fs_at_start.chunks
        /\ images_dir = fs_at_start.images
        /\ pc = "indexing" => index_dir = fs_at_start.index

C4_Witness ==
    /\ C4_Applies
    /\ pc = "indexing"
    /\ images_dir # {}
    /\ chunks_file = Holding(OldChunks)

\* C5: the driver ends with a non-zero exit code whenever the input PDF is
\* missing or the inference step failed.
C5_FailureExitsNonZero ==
    (entry = "main" /\ pc = "exited" /\ (failed = "pdf_missing" \/ inference = "failed"))
        => exit_code # 0

\* C6: create_vector_store called with an empty list, or with no argument while
\* the chunk file holds an empty array, computes no embedding, leaves the
\* in-memory store unset and does not touch the persisted index.
C6_EmptyBuildIsNoOp ==
    (/\ entry = "create_vector_store"
     /\ pc = "returned"
     /\ \/ call_arg = ListArg(<<>>)
        \/ call_arg = NoneArg /\ chunks_file = Holding(<<>>))
        => /\ embed_count = 0
           /\ ~vectorstore.exists
           /\ index_dir = fs_at_start.index

\* C7: while an ingestion run is extracting, and after extraction failed on a
\* page, the chunk file is what it was before the run (kept, or still absent);
\* the failed run has ended with exit code 1.
C7_FailedExtractionWritesNothing ==
    /\ (entry \in {"main", "processor"} /\ (pc \in IngestionPositions \/ failed = "extraction"))
           => chunks_file = fs_at_start.chunks
    /\ failed = "extraction" => (pc = "exited" /\ exit_code = 1)

C7_Witness ==
    /\ failed = "extraction"
    /\ processed_chunks # <<>>
    /\ chunks_file = Holding(OldChunks)

\* C8: when DocumentProcessor() and process_pdf() run without the PDF, the
\* failure leaves the images directory, the chunk file and the index as they
\* were.
C8_MissingPdfHasNoSideEffect ==
    (entry = "processor" /\ failed = "FileNotFoundError") => Snapshot = fs_at_start

\* The records an index build read: the argument, or the chunk file for None.
BuildInput == IF call_arg.is_none THEN chunks_file.data ELSE call_arg.data

\* An index build from n >= 1 records has happened.
C9_Applies ==
    /\ pc \in {"returned", "inference", "exited"}
    /\ embed_count > 0
    /\ call_arg # ListArg(<<>>)

\* C9: an index built from n >= 1 records holds n documents, the i-th (0-based)
\* being the i-th input record with chunk_id i, whatever chunk_id it carried.
C9_ChunkIdsFollowInputOrder ==
    C9_Applies =>
        /\ Len(BuildInput) >= 1
        /\ embed_count = Len(BuildInput)
        /\ index_dir.exists
        /\ Len(index_dir.data) = Len(BuildInput)
        /\ \A n \in 1..Len(BuildInput) :
            /\ index_dir.data[n].metadata["chunk_id"] = n - 1
            /\ index_dir.data[n].page_content = Get(BuildInput[n], "page_content", <<>>)
        /\ {index_dir.data[n].metadata["chunk_id"] : n \in 1..Len(BuildInput)}
               = 0..(Len(BuildInput) - 1)

C9_Witness ==
    /\ C9_Applies
    /\ BuildInput = OldChunks
    /\ BuildInput[1].metadata["chunk_id"] = 5
    /\ index_dir.data[1].metadata["chunk_id"] = 0
    /\ index_dir.data[2].metadata["chunk_id"] = 1

\* text.split(sep) for a one-token separator
RECURSIVE Split(_, _)
Split(s, sep) ==
    IF \A i \in 1..Len(s) : s[i] # sep THEN <<s>>
    ELSE LET k == CHOOSE i \in 1..Len(s) : s[i] = sep /\ \A j \in 1..(i - 1) : s[j] # sep
         IN  <<SubSeq(s, 1, k - 1)>> \o Split(SubSeq(s, k + 1, Len(s)), sep)

\* What a cell should show: nothing for None, else its text with every newline
\* a space, from its first to its last non-blank character.
ShownCell(cell) ==
    IF cell = NoneCell THEN <<>>
    ELSE LET flat == [i \in 1..Len(cell) |-> IF cell[i] = NL THEN SP ELSE cell[i]]
             ink == {i \in 1..Len(cell) : flat[i] # SP}
         IN  IF ink = {} THEN <<>>
             ELSE SubSeq(flat, CHOOSE i \in ink : \A j \in ink : i <= j,
                               CHOOSE i \in ink : \A j \in ink : i >= j)

\* A markdown line "| c1 | c2 |" showing the given cells (none: "|  |").
LineShows(line, cells) ==
    /\ Len(line) >= 2
    /\ line[1] = "| "
    /\ line[Len(line)] = " |"
    /\ LET inner == Split(SubSeq(line, 2, Len(line) - 1), " | ") IN
       IF cells = <<>> THEN inner = << <<>> >> ELSE inner = cells

\* The block of a table of at least 2 rows: an empty line, then rows + 1 lines,
\* each ended by a newline: header, separator, body rows in order.
WellRendered(table, md) ==
    LET lines == Split(md, NL) IN
    /\ Len(lines) = Len(table) + 3
    /\ lines[1] = <<>>
    /\ lines[Len(lines)] = <<>>
    /\ LineShows(lines[2], [c \in 1..Len(table[1]) |-> ShownCell(table[1][c])])
    /\ LineShows(lines[3], [c \in 1..Len(table[1]) |-> <<"---">>])
    /\ \A r \in 2..Len(table) :
           LineShows(lines[r + 2], [c \in 1..Len(table[r]) |-> ShownCell(table[r][c])])

RECURSIVE RowsAtLeastTwo(_)
RowsAtLeastTwo(tables) ==
    IF tables = <<>> THEN <<>>
    ELSE IF Len(Head(tables)) >= 2 THEN <<Head(tables)>> \o RowsAtLeastTwo(Tail(tables))
    ELSE RowsAtLeastTwo(Tail(tables))

HasTableText(content) ==
    \E i \in 1..Len(content) : content[i] \in {TABLES_HDR, "| ", " | ", " |", "---"}

C10_WitnessDropped ==
    /\ page_pc = "done"
    /\ cur_page.tables = <<HeaderOnlyTable, <<>>>>
    /\ cur_tables = <<>>
    /\ Len(cur_chunks) = 1

HasToken(content, tok) == \E i \in 1..Len(content) : content[i] = tok

\* What a page has to show: a table of at least 2 rows, some text, or an image.
PageHasContent(pg) ==
    \/ \E t \in 1..Len(pg.tables) : Len(pg.tables[t]) >= 2
    \/ pg.text # <<>>
    \/ pg.images > 0

\* The record carries the sections of the page: its text, its images.
RecordShowsPage(rec, pg) ==
    /\ HasToken(rec.page_content, TEXT_HDR) <=> pg.text # <<>>
    /\ HasToken(rec.page_content, VISUALS_HDR) <=> pg.images > 0
    /\ HasToken(rec.page_content, TABLES_HDR)
           <=> \E t \in 1..Len(pg.tables) : Len(pg.tables[t]) >= 2

\* process_pdf has opened the PDF: processed_chunks holds the records of the
\* first page_i pages.
C11_Applies == entry \in {"main", "processor"} /\ pdf_read

\* C11: in the records of process_pdf every record has non-blank content and
\* carries the 1-based position of its page, the pages increase strictly along
\* the sequence, and a page has a record exactly when it has content; what
\* process_pdf returns, and save_chunks writes, covers every page of the PDF.
C11_RecordsFollowPages ==
    C11_Applies =>
        /\ page_i \in 0..Len(pdf.data)
        /\ \A k \in 1..Len(processed_chunks) :
            /\ Strip(processed_chunks[k].page_content) # <<>>
            /\ processed_chunks[k].metadata["page"] \in 1..page_i
            /\ RecordShowsPage(processed_chunks[k],
                               pdf.data[processed_chunks[k].metadata["page"]])
        /\ \A k \in 1..Len(processed_chunks), l \in 1..Len(processed_chunks) :
               k < l => processed_chunks[k].metadata["page"]
                            < processed_chunks[l].metadata["page"]
        /\ \A p \in 1..page_i :
               (\E k \in 1..Len(processed_chunks) : processed_chunks[k].metadata["page"] = p)
                   <=> PageHasContent(pdf.data[p])
        /\ (pc \notin {"pages", "exited"} \/ (pc = "exited" /\ failed = "none"))
               => (page_i = Len(pdf.data) /\ chunks_file = Holding(processed_chunks))

C11_Witness ==
    /\ C11_Applies
    /\ pc = "exited"
    /\ failed = "none"
    /\ Len(pdf.data) = 2
    /\ ~PageHasContent(pdf.data[1])
    /\ Len(processed_chunks) = 1
    /\ processed_chunks[1].metadata["page"] = 2
    /\ pdf.data[2].text = <<SP>>

\* C12: get_retriever needs no explicit load.  With no index in memory it
\* loads the persisted one and returns a retriever over it; with one in memory
\* it returns a retriever over that one without loading; with none in memory
\* and none persisted it raises the not-found error and returns no retriever.
C12_LazyLoad ==
    (entry = "get_retriever" /\ pc = "returned") =>
        /\ (~last_get.before.exists /\ index_dir.exists) =>
               /\ last_get.loads = 1
               /\ last_get.returned
               /\ failed = "none"
               /\ vectorstore = index_dir
        /\ last_get.before.exists =>
               /\ last_get.loads = 0
               /\ last_get.returned
               /\ failed = "none"
               /\ vectorstore = last_get.before
        /\ (~last_get.before.exists /\ ~index_dir.exists) =>
               /\ last_get.loads = 0
               /\ ~last_get.returned
               /\ failed = "FileNotFoundError"
               /\ ~vectorstore.exists

\* A call on a manager that already holds an index: nothing is loaded.
C12_Witness ==
    /\ entry = "get_retriever"
    /\ pc = "returned"
    /\ last_get.before = Holding(ToDocuments(OtherChunks))
    /\ last_get.loads = 0
    /\ last_get.returned

C12_WitnessLoad ==
    /\ entry = "get_retriever"
    /\ pc = "returned"
    /\ ~last_get.before.exists
    /\ last_get.loads = 1

C12_WitnessNotFound ==
    /\ entry = "get_retriever"
    /\ pc = "returned"
    /\ ~last_get.returned

\* The block the prompt should hold for a chunk: its label line, then its
\* content.
LabelledBlock(doc) ==
    <<"--- INFO FROM PAGE ", PageLabel(doc.metadata), " (",
      Get(doc.metadata, "source", "Report"), ") ---", NL>>
    \o doc.page_content \o <<NL, NL>>

\* C13: for a non-empty retrieved list the chain is invoked once; the
\* template's context slot receives the chunks' labelled blocks concatenated in
\* rank order, each with the chunk's content, and its question slot receives
\* the raw query.
C13_PromptSlots ==
    (QACalled /\ docs_given # <<>>) =>
        /\ Len(chain_calls) = 1
        /\ chain_calls[1].context
               = Flatten([i \in 1..Len(docs_given) |-> LabelledBlock(docs_given[i])])
        /\ chain_calls[1].question = <<query>>

\* A pipeline-driver run without --skip-ingest that ended normally and whose
\* ingestion step extracted the PDF and rewrote the chunk file.
C14_Applies ==
    /\ entry = "main" /\ pc = "exited" /\ exit_code = 0
    /\ ~args.skip_ingest
    /\ pdf_read /\ chunks_file.exists

\* C14: after a successful pipeline-driver run without --skip-ingest whose
\* ingestion step rewrote the chunk file, a persisted index that exists was
\* built from the chunk file's current contents.
C14_IndexBuiltFromChunkFile ==
    (C14_Applies /\ index_dir.exists) =>
        index_dir.data = ToDocuments(chunks_file.data)

\* The content holds a visuals section with at least one image placeholder.
HasVisualsSection(content) ==
    \E i \in 1..Len(content) :
        /\ content[i] = VISUALS_HDR
        /\ \E j \in (i + 1)..Len(content) : content[j] = "[IMAGE_REF: page_"

\* C15: in every record emitted for a page, has_tables is true exactly when the
\* content contains a tables section, and has_images is true exactly when the
\* content contains a visuals section with at least one image placeholder.
C15_FlagsAgreeWithContent ==
    page_pc = "done" =>
        \A k \in 1..Len(cur_chunks) :
            /\ cur_chunks[k].metadata.has_tables
                   <=> HasToken(cur_chunks[k].page_content, TABLES_HDR)
            /\ cur_chunks[k].metadata.has_images
                   <=> HasVisualsSection(cur_chunks[k].page_content)

\* The has_images half of C15 alone.
C15_ImagesFlagAgrees ==
    page_pc = "done" =>
        \A k \in 1..Len(cur_chunks) :
            cur_chunks[k].metadata.has_images
                <=> HasVisualsSection(cur_chunks[k].page_content)

====
